---- MODULE Spec2Model ----
(***************************************************************************)
(* Salary Prediction API (FastAPI application, app/main.py).               *)
(*                                                                         *)
(* State: the two relational tables (users, predictions), the module-level *)
(* `model` object loaded at import time, the wall clock, the register      *)
(* requests in flight (one per server worker thread) and the last response *)
(* sent by the other, single-step endpoints.                               *)
(*                                                                         *)
(* app/auth.py, app/models.py and app/database.py are not among the source *)
(* files; the password hasher, the token issuer/verifier, the              *)
(* authentication gate and the storage layer are modelled from sections    *)
(* 3, 4.1, 4.2 and 5 of the specification.                                 *)
(*                                                                         *)
(* Time is counted in minutes.                                             *)
(***************************************************************************)
EXTENDS Integers, Sequences, FiniteSets, TLC

VARIABLES
    artifact,      \* the model file on disk: "missing" | "corrupt" | "ok"
    phase,         \* "boot" while main.py is being imported, then "serving"
    model,         \* main.py's module-level `model`: "None" | "estimator"
    users,         \* the users table: sequence of User rows, in insertion order
    predictions,   \* the predictions table: sequence of Prediction rows
    now,           \* the wall clock, in minutes
    ticks,         \* how many times the clock has advanced
    issued,        \* the tokens handed out by /login, each with its issue time
    reg,           \* the /register request each worker is handling
    nreg,          \* how many /register requests have been accepted so far
    resp           \* the last response of a single-step endpoint, with its request

vars == <<artifact, phase, model, users, predictions, now, ticks, issued, reg, nreg, resp>>

----------------------------------------------------------------------------
(* Bounds of the model *)

NumWorkers == 2
MaxRegistrations == 3
MaxTicks == 1
MaxPredictions == 3
MaxLogins == 2

Workers == 1..NumWorkers
Usernames == {"ann", "bob"}
Emails == {"ann@x.io", "bob@x.io"}
Passwords == {"secret1", "secret2"}
RegisterPasswords == {"secret1"}
Salts == {"s1", "s2"}
TickSteps == {1, 29, 30}

----------------------------------------------------------------------------
(* config.py *)

ACCESS_TOKEN_EXPIRE_MINUTES == 30

----------------------------------------------------------------------------
(* Responses *)

NoHeaders == ""
BearerChallenge == "WWW-Authenticate: Bearer"

HTTPException(status_code, detail, headers) ==
    [status |-> status_code, detail |-> detail, headers |-> headers, body |-> <<>>]

Reply(status_code, body) ==
    [status |-> status_code, detail |-> "", headers |-> NoHeaders, body |-> body]

NoResponse == [status |-> 0, detail |-> "", headers |-> NoHeaders, body |-> <<>>]

\* An exception no handler catches: the serving layer answers 500.
InternalServerError == HTTPException(500, "Internal Server Error", NoHeaders)

UserResponse(row) ==
    [id |-> row.id, username |-> row.username, email |-> row.email,
     created_at |-> row.created_at]

PredictionResponse(row) ==
    [id |-> row.id, test_score |-> row.test_score,
     interview_score |-> row.interview_score,
     years_experience |-> row.years_experience,
     predicted_salary |-> row.predicted_salary, created_at |-> row.created_at]

----------------------------------------------------------------------------
(* Password hasher (specification 4.1) *)

hash_password(password, salt) == [salt |-> salt, digest |-> <<salt, password>>]

verify_password(password, hashed) == hashed.digest = <<hashed.salt, password>>

----------------------------------------------------------------------------
(* Storage layer (specification 3 and 5) *)

UsersByUsername(rows, username) ==
    SelectSeq(rows, LAMBDA r : r.username = username)

UsersByEmail(rows, email) ==
    SelectSeq(rows, LAMBDA r : r.email = email)

\* Faulty variant: a users table declared without its UNIQUE constraints.
NoUniqueConstraint(rows, row) == FALSE

\* The UNIQUE constraints on users.username and users.email.
UniqueViolation(rows, row) ==
    \E i \in DOMAIN rows :
        rows[i].username = row.username \/ rows[i].email = row.email

\* INSERT with an autoincremented primary key and the creation timestamp.
InsertUser(rows, row, at) ==
    Append(rows, [id |-> Len(rows) + 1, username |-> row.username,
                  email |-> row.email, hashed_password |-> row.hashed_password,
                  created_at |-> at])

InsertPrediction(rows, row, at) ==
    Append(rows, [id |-> Len(rows) + 1, user_id |-> row.user_id,
                  test_score |-> row.test_score,
                  interview_score |-> row.interview_score,
                  years_experience |-> row.years_experience,
                  predicted_salary |-> row.predicted_salary,
                  created_at |-> at])

----------------------------------------------------------------------------
(* POST /register, one step per database round trip *)

IdleRequest ==
    [pc |-> "idle", username |-> "", email |-> "", password |-> "",
     outcome |-> NoResponse,
     snap |-> <<>>, fin |-> <<>>, interfered |-> FALSE, lost |-> FALSE]

\* A worker takes a register request (a valid UserCreate body).
RegStart(w, username, email, password) ==
    /\ reg[w].pc \in {"idle", "done"}
    /\ nreg < MaxRegistrations
    /\ nreg' = nreg + 1
    /\ reg' = [reg EXCEPT ![w] =
                  [IdleRequest EXCEPT !.pc = "check_username",
                                      !.username = username,
                                      !.email = email,
                                      !.password = password,
                                      !.snap = users]]
    /\ UNCHANGED <<artifact, phase, model, users, predictions, now, ticks, issued, resp>>

\* Faulty variant: the username query result is ignored.
RegCheckUsernameSkipped(w) ==
    /\ reg[w].pc = "check_username"
    /\ reg' = [reg EXCEPT ![w].pc = "check_email"]
    /\ UNCHANGED <<artifact, phase, model, users, predictions, now, ticks, issued, nreg, resp>>

\* if db.query(User).filter(User.username == user.username).first(): raise 400
RegCheckUsername(w) ==
    /\ reg[w].pc = "check_username"
    /\ IF UsersByUsername(users, reg[w].username) # <<>>
       THEN reg' = [reg EXCEPT
                       ![w].pc = "done",
                       ![w].fin = users,
                       ![w].outcome =
                           HTTPException(400, "Username already registered", NoHeaders)]
       ELSE reg' = [reg EXCEPT ![w].pc = "check_email"]
    /\ UNCHANGED <<artifact, phase, model, users, predictions, now, ticks, issued, nreg, resp>>

\* if db.query(User).filter(User.email == user.email).first(): raise 400
RegCheckEmail(w) ==
    /\ reg[w].pc = "check_email"
    /\ IF UsersByEmail(users, reg[w].email) # <<>>
       THEN reg' = [reg EXCEPT
                       ![w].pc = "done",
                       ![w].fin = users,
                       ![w].outcome =
                           HTTPException(400, "Email already registered", NoHeaders)]
       ELSE reg' = [reg EXCEPT ![w].pc = "commit"]
    /\ UNCHANGED <<artifact, phase, model, users, predictions, now, ticks, issued, nreg, resp>>

\* hash_password, db.add, db.commit, db.refresh, return new_user.  The commit
\* raises IntegrityError when a UNIQUE constraint fails; register does not catch it.
RegCommit(w, salt) ==
    /\ reg[w].pc = "commit"
    /\ LET new_user == [username |-> reg[w].username, email |-> reg[w].email,
                        hashed_password |-> hash_password(reg[w].password, salt)]
           stored == InsertUser(users, new_user, now)
       IN  IF UniqueViolation(users, new_user)
           THEN /\ users' = users
                /\ reg' = [reg EXCEPT ![w].pc = "done",
                                      ![w].fin = users,
                                      ![w].lost = TRUE,
                                      ![w].outcome = InternalServerError]
           ELSE /\ users' = stored
                /\ reg' = [v \in Workers |->
                             IF v = w
                             THEN [reg[w] EXCEPT
                                      !.pc = "done",
                                      !.fin = stored,
                                      !.outcome =
                                          Reply(201, <<UserResponse(stored[Len(stored)])>>)]
                             ELSE IF reg[v].pc \in {"check_username", "check_email", "commit"}
                                  THEN [reg[v] EXCEPT !.interfered = TRUE]
                                  ELSE reg[v]]
    /\ UNCHANGED <<artifact, phase, model, predictions, now, ticks, issued, nreg, resp>>

----------------------------------------------------------------------------
(* Token issuer/verifier and authentication gate (specification 4.2, 4.4) *)

SECRET_KEY == "your-secret-key-change-this-in-production-make-it-long-and-random"

AbsentToken == [kind |-> "absent", sub |-> "", exp |-> 0, sig |-> ""]
MalformedToken == [kind |-> "malformed", sub |-> "", exp |-> 0, sig |-> ""]

\* A signed token embedding the claim and the absolute expiry instant.
create_access_token(data, expires_delta, at) ==
    [kind |-> "jwt", sub |-> data.sub, exp |-> at + expires_delta, sig |-> SECRET_KEY]

\* <<username>> for a token that verifies at instant `at`, <<>> otherwise.
verify_token(tok, at) ==
    IF tok.kind # "jwt" THEN <<>>               \* Malformed, or no bearer token at all
    ELSE IF tok.sig # SECRET_KEY THEN <<>>      \* InvalidSignature
    ELSE IF at >= tok.exp THEN <<>>             \* Expired
    ELSE <<tok.sub>>

First(rows) == IF rows = <<>> THEN <<>> ELSE <<rows[1]>>

\* <<user>> when the bearer token verifies and its username is a stored user.
get_current_user(tok, at, rows) ==
    LET claim == verify_token(tok, at)
    IN  IF claim = <<>> THEN <<>> ELSE First(UsersByUsername(rows, claim[1]))

\* The single unauthenticated outcome of the gate.
AuthenticationFailed ==
    HTTPException(401, "Could not validate credentials", BearerChallenge)

\* <<user>> when the user exists and the password verifies, <<>> otherwise.
authenticate_user(rows, username, password) ==
    LET found == First(UsersByUsername(rows, username))
    IN  IF found = <<>> THEN <<>>
        ELSE IF ~verify_password(password, found[1].hashed_password) THEN <<>>
        ELSE found

----------------------------------------------------------------------------
(* The single-step endpoints record their request and response in resp *)

NoToken == AbsentToken
NoInput == [test_score |-> 0, interview_score |-> 0, years_experience |-> 0]
NoParams == [username |-> "", password |-> "", input |-> NoInput, id |-> 0]

NoRequest ==
    [op |-> "none", tok |-> NoToken, time |-> 0, req |-> NoParams,
     out |-> NoResponse, ran |-> FALSE, prepared |-> FALSE, invoked |-> FALSE]

\* The exchange of one request: `ran` tells whether the handler body ran,
\* `prepared` and `invoked` whether prepare_features and model.predict were called.
Exchange(op, tok, req, out, ran, prepared, invoked) ==
    [op |-> op, tok |-> tok, time |-> now, req |-> req, out |-> out,
     ran |-> ran, prepared |-> prepared, invoked |-> invoked]

----------------------------------------------------------------------------
(* POST /login *)

\* Faulty variant: timedelta(hours=ACCESS_TOKEN_EXPIRE_MINUTES).
access_token_expires_hours == 60 * ACCESS_TOKEN_EXPIRE_MINUTES

\* access_token_expires = timedelta(minutes=ACCESS_TOKEN_EXPIRE_MINUTES)
access_token_expires == ACCESS_TOKEN_EXPIRE_MINUTES

\* The handler, with `failure` the exception raised when authenticate_user
\* returns no user.
LoginHandler(username, password, failure) ==
    LET user == authenticate_user(users, username, password)
        params == [NoParams EXCEPT !.username = username, !.password = password]
    IN  IF user = <<>>
        THEN /\ resp' = Exchange("login", NoToken, params, failure, TRUE, FALSE, FALSE)
             /\ UNCHANGED <<artifact, phase, model, users, predictions, now, ticks,
                            issued, reg, nreg>>
        ELSE LET access_token ==
                     create_access_token([sub |-> user[1].username],
                                         access_token_expires, now)
             IN  /\ Cardinality(issued \cup {[tok |-> access_token, at |-> now]})
                        <= MaxLogins
                 /\ issued' = issued \cup {[tok |-> access_token, at |-> now]}
                 /\ resp' = Exchange("login", NoToken, params,
                                Reply(200, <<[access_token |-> access_token,
                                              token_type |-> "bearer"]>>),
                                TRUE, FALSE, FALSE)
                 /\ UNCHANGED <<artifact, phase, model, users, predictions, now,
                                ticks, reg, nreg>>

\* Faulty variant: an unknown username gets an error of its own.
login_leaky(username, password) ==
    LoginHandler(username, password,
                 IF UsersByUsername(users, username) = <<>>
                 THEN HTTPException(404, "User not found", NoHeaders)
                 ELSE HTTPException(401, "Incorrect username or password",
                                    BearerChallenge))

\* if not user: raise HTTPException(401, "Incorrect username or password",
\*                                  headers={"WWW-Authenticate": "Bearer"})
login(username, password) ==
    LoginHandler(username, password,
                 HTTPException(401, "Incorrect username or password", BearerChallenge))

----------------------------------------------------------------------------
(* GET /me *)

\* Faulty variant: the user is looked up from the token's claim without verifying it.
user_info_unverified(tok) ==
    LET current_user == First(UsersByUsername(users, tok.sub))
    IN  /\ resp' = IF current_user = <<>>
                   THEN Exchange("me", tok, NoParams, AuthenticationFailed,
                                 FALSE, FALSE, FALSE)
                   ELSE Exchange("me", tok, NoParams,
                                 Reply(200, <<UserResponse(current_user[1])>>),
                                 TRUE, FALSE, FALSE)
        /\ UNCHANGED <<artifact, phase, model, users, predictions, now, ticks, issued,
                       reg, nreg>>

user_info(tok) ==
    LET current_user == get_current_user(tok, now, users)
    IN  /\ resp' = IF current_user = <<>>
                   THEN Exchange("me", tok, NoParams, AuthenticationFailed,
                                 FALSE, FALSE, FALSE)
                   ELSE Exchange("me", tok, NoParams,
                                 Reply(200, <<UserResponse(current_user[1])>>),
                                 TRUE, FALSE, FALSE)
        /\ UNCHANGED <<artifact, phase, model, users, predictions, now, ticks, issued,
                       reg, nreg>>

----------------------------------------------------------------------------
(* Model loading (utils.py, and main.py at import time) *)

\* What pickle.load makes of the file: an estimator, or, for a pickle of
\* something else, an object without a predict method.
load_model(file) ==
    IF file = "missing" THEN "None"             \* not os.path.exists(MODEL_PATH)
    ELSE IF file = "corrupt" THEN "None"        \* pickle.load raised
    ELSE IF file = "foreign" THEN "object"
    ELSE "estimator"

\* try: model = load_model()  except Exception: model = None
Startup ==
    /\ phase = "boot"
    /\ model' = load_model(artifact)
    /\ phase' = "serving"
    /\ UNCHANGED <<artifact, users, predictions, now, ticks, issued, reg, nreg, resp>>

\* Faulty variant: the features in another order.
prepare_features_swapped(test_score, interview_score, years_experience) ==
    << <<interview_score, test_score, years_experience>> >>

\* features = [test_score, interview_score, years_experience]; return [features]
prepare_features(test_score, interview_score, years_experience) ==
    << <<test_score, interview_score, years_experience>> >>

\* The regression the artifact holds (specification 4.3: an opaque function of
\* the feature vector), one output per row of X.
Regress(x) == 20000 + 300 * x[1] + 200 * x[2] + 5000 * x[3]

ModelPredict(X) == [k \in DOMAIN X |-> Regress(X[k])]

----------------------------------------------------------------------------
(* POST /predict *)

\* Faulty variant: no `if model is None` check before the try block.
model_never_none(m) == FALSE

\* if model is None
model_is_none(m) == m = "None"

predict_salary(tok, input_data) ==
    LET current_user == get_current_user(tok, now, users)
        params == [NoParams EXCEPT !.input = input_data]
    IN  IF current_user = <<>>
        THEN /\ resp' = Exchange("predict", tok, params, AuthenticationFailed,
                            FALSE, FALSE, FALSE)
             /\ UNCHANGED <<artifact, phase, model, users, predictions, now, ticks,
                            issued, reg, nreg>>
        ELSE IF model_is_none(model)
        THEN /\ resp' = Exchange("predict", tok, params,
                            HTTPException(503, "Model not loaded", NoHeaders),
                            TRUE, FALSE, FALSE)
             /\ UNCHANGED <<artifact, phase, model, users, predictions, now, ticks,
                            issued, reg, nreg>>
        ELSE IF model # "estimator"
        \* model.predict raises (None and foreign objects have no such method);
        \* except Exception: raise 500
        THEN /\ resp' = Exchange("predict", tok, params,
                            HTTPException(500, "Prediction error", NoHeaders),
                            TRUE, TRUE, TRUE)
             /\ UNCHANGED <<artifact, phase, model, users, predictions, now, ticks,
                            issued, reg, nreg>>
        ELSE LET features == prepare_features(input_data.test_score,
                                              input_data.interview_score,
                                              input_data.years_experience)
                 predicted_salary == ModelPredict(features)[1]
                 new_prediction ==
                     [user_id |-> current_user[1].id,
                      test_score |-> input_data.test_score,
                      interview_score |-> input_data.interview_score,
                      years_experience |-> input_data.years_experience,
                      predicted_salary |-> predicted_salary]
                 stored == InsertPrediction(predictions, new_prediction, now)
             IN  /\ Len(predictions) < MaxPredictions
                 /\ predictions' = stored
                 /\ resp' = Exchange("predict", tok, params,
                                Reply(201, <<PredictionResponse(stored[Len(stored)])>>),
                                TRUE, TRUE, TRUE)
                 /\ UNCHANGED <<artifact, phase, model, users, now, ticks, issued,
                                reg, nreg>>

----------------------------------------------------------------------------
(* GET /predictions *)

\* The permutations of 1..n, for every table size the model reaches.
IndexOrders ==
    [n \in 0..(MaxPredictions + 1) |->
        { g \in [1..n -> 1..n] : \A a, b \in 1..n : a # b => g[a] # g[b] }]

Reorderings(rows) ==
    { [k \in DOMAIN rows |-> rows[f[k]]] : f \in IndexOrders[Len(rows)] }

\* Faulty variant: ORDER BY created_at ASC.
order_by_created_at_asc(rows) ==
    { r \in Reorderings(rows) :
        \A k \in 1..(Len(r) - 1) : r[k].created_at <= r[k + 1].created_at }

\* ORDER BY created_at DESC: every order of the rows the database may return;
\* rows with equal timestamps come in either order.
order_by_created_at_desc(rows) ==
    { r \in Reorderings(rows) :
        \A k \in 1..(Len(r) - 1) : r[k].created_at >= r[k + 1].created_at }

PredictionResponses(rows) == [k \in DOMAIN rows |-> PredictionResponse(rows[k])]

get_predictions(tok) ==
    LET current_user == get_current_user(tok, now, users)
    IN  /\ IF current_user = <<>>
           THEN resp' = Exchange("list", tok, NoParams, AuthenticationFailed,
                                 FALSE, FALSE, FALSE)
           ELSE \E result \in order_by_created_at_desc(
                                 SelectSeq(predictions,
                                           LAMBDA r : r.user_id = current_user[1].id)) :
                    resp' = Exchange("list", tok, NoParams,
                                     Reply(200, PredictionResponses(result)),
                                     TRUE, FALSE, FALSE)
        /\ UNCHANGED <<artifact, phase, model, users, predictions, now, ticks, issued,
                       reg, nreg>>

----------------------------------------------------------------------------
(* GET /predictions/{prediction_id} *)

\* Faulty variant: the query filters on the id alone.
prediction_by_id_any_owner(rows, prediction_id, user_id) ==
    First(SelectSeq(rows, LAMBDA r : r.id = prediction_id))

\* db.query(Prediction).filter(id == prediction_id, user_id == current_user.id).first()
prediction_by_id(rows, prediction_id, user_id) ==
    First(SelectSeq(rows, LAMBDA r : r.id = prediction_id /\ r.user_id = user_id))

get_prediction(tok, prediction_id) ==
    LET current_user == get_current_user(tok, now, users)
        params == [NoParams EXCEPT !.id = prediction_id]
    IN  /\ IF current_user = <<>>
           THEN resp' = Exchange("get", tok, params, AuthenticationFailed,
                                 FALSE, FALSE, FALSE)
           ELSE LET prediction ==
                        prediction_by_id(predictions, prediction_id, current_user[1].id)
                IN  IF prediction = <<>>
                    THEN resp' = Exchange("get", tok, params,
                                     HTTPException(404, "Prediction not found", NoHeaders),
                                     TRUE, FALSE, FALSE)
                    ELSE resp' = Exchange("get", tok, params,
                                     Reply(200, <<PredictionResponse(prediction[1])>>),
                                     TRUE, FALSE, FALSE)
        /\ UNCHANGED <<artifact, phase, model, users, predictions, now, ticks, issued,
                       reg, nreg>>

----------------------------------------------------------------------------
(* The clock *)

Tick(d) ==
    /\ ticks < MaxTicks
    /\ ticks' = ticks + 1
    /\ now' = now + d
    /\ UNCHANGED <<artifact, phase, model, users, predictions, issued, reg, nreg, resp>>

----------------------------------------------------------------------------
(* The server with an empty database, handling register requests *)

InitRegister ==
    /\ artifact = "ok"
    /\ phase = "serving"
    /\ model = "estimator"
    /\ users = <<>>
    /\ predictions = <<>>
    /\ now = 0
    /\ ticks = 0
    /\ issued = {}
    /\ reg = [w \in Workers |-> IdleRequest]
    /\ nreg = 0
    /\ resp = NoRequest

NextRegister ==
    \/ \E w \in Workers, u \in Usernames, e \in Emails, p \in RegisterPasswords :
           RegStart(w, u, e, p)
    \/ \E w \in Workers : RegCheckUsername(w)
    \/ \E w \in Workers : RegCheckEmail(w)
    \/ \E w \in Workers, s \in Salts : RegCommit(w, s)

SpecRegister == InitRegister /\ [][NextRegister]_vars

----------------------------------------------------------------------------
(* Claims about /register, checked under SpecRegister *)

DuplicateUsername == HTTPException(400, "Username already registered", NoHeaders)
DuplicateEmail == HTTPException(400, "Email already registered", NoHeaders)

\* C1: in every reachable state of the users table, whatever the interleaving
\* of register requests, no two stored rows share a username and no two share
\* an email.
C1_UniqueUsers ==
    \A i, j \in DOMAIN users :
        i # j => /\ users[i].username # users[j].username
                 /\ users[i].email # users[j].email

\* Two requests raced past both existence checks and the storage layer
\* refused the second insert.
C1_Witness ==
    \E w \in Workers :
        /\ reg[w].pc = "done"
        /\ reg[w].lost
        /\ UsersByUsername(reg[w].snap, reg[w].username) = <<>>
        /\ UsersByEmail(reg[w].snap, reg[w].email) = <<>>
        /\ Len(users) >= 1

\* C2: a register request that loses at the storage layer's uniqueness
\* constraint ends with the DuplicateUsername or DuplicateEmail outcome (400),
\* like a request rejected by the checks before the insert.
C2_RaceLoserGetsDuplicateOutcome ==
    \A w \in Workers :
        (reg[w].pc = "done" /\ reg[w].lost)
            => reg[w].outcome \in {DuplicateUsername, DuplicateEmail}

\* C3: a register request during which no other request committed fails with
\* DuplicateUsername when its username was already stored, otherwise with
\* DuplicateEmail when its email was already stored; either way the users
\* table is left exactly as the request found it.
C3_SequentialDuplicates ==
    \A w \in Workers :
        (reg[w].pc = "done" /\ ~reg[w].interfered) =>
            /\ UsersByUsername(reg[w].snap, reg[w].username) # <<>>
                   => (reg[w].outcome = DuplicateUsername /\ reg[w].fin = reg[w].snap)
            /\ ( /\ UsersByUsername(reg[w].snap, reg[w].username) = <<>>
                 /\ UsersByEmail(reg[w].snap, reg[w].email) # <<>> )
                   => (reg[w].outcome = DuplicateEmail /\ reg[w].fin = reg[w].snap)

\* Both rejections have happened: one request refused for its username, and
\* another, with a fresh username, refused for its email.
C3_Witness ==
    \E v, w \in Workers :
        /\ reg[v].pc = "done" /\ ~reg[v].interfered
        /\ reg[v].outcome = DuplicateUsername
        /\ UsersByUsername(reg[v].snap, reg[v].username) # <<>>
        /\ reg[w].pc = "done" /\ ~reg[w].interfered
        /\ reg[w].outcome = DuplicateEmail
        /\ UsersByUsername(reg[w].snap, reg[w].username) = <<>>
        /\ UsersByEmail(reg[w].snap, reg[w].email) # <<>>

----------------------------------------------------------------------------
(* A database holding two registered users *)

SeededUsers ==
    InsertUser(
        InsertUser(<<>>, [username |-> "ann", email |-> "ann@x.io",
                          hashed_password |-> hash_password("secret1", "s1")], 0),
        [username |-> "bob", email |-> "bob@x.io",
         hashed_password |-> hash_password("secret2", "s2")], 0)

----------------------------------------------------------------------------
(* The serving process: logins, the clock and GET /me *)

LoginUsernames == Usernames \cup {"zed"}

InitAuth ==
    /\ artifact = "ok"
    /\ phase = "serving"
    /\ model = "estimator"
    /\ \E n \in 1..Len(SeededUsers) : users = SubSeq(SeededUsers, 1, n)
    /\ predictions = <<>>
    /\ now = 0
    /\ ticks = 0
    /\ issued = {}
    /\ reg = [w \in Workers |-> IdleRequest]
    /\ nreg = 0
    /\ resp = NoRequest

NextAuth ==
    \/ \E u \in LoginUsernames, p \in Passwords : login(u, p)
    \/ \E t \in issued : user_info(t.tok)
    \/ \E d \in TickSteps : Tick(d)

SpecAuth == InitAuth /\ [][NextAuth]_vars

----------------------------------------------------------------------------
(* The process from import on: model loading, then the protected endpoints *)

Signed(username, exp) ==
    [kind |-> "jwt", sub |-> username, exp |-> exp, sig |-> SECRET_KEY]

\* What a client may send as its bearer token: nothing, garbage, the tokens
\* ann and bob got by logging in at instant 0, a token signed with another
\* key, a token that expired at instant 0, and a token for a username that
\* is not stored.
RejectedTokens ==
    { AbsentToken, MalformedToken,
      [Signed("ann", 0 + ACCESS_TOKEN_EXPIRE_MINUTES) EXCEPT !.sig = "another-key"],
      Signed("ann", 0),
      Signed("zed", 0 + ACCESS_TOKEN_EXPIRE_MINUTES) }

LoggedInTokens ==
    { Signed("ann", 0 + ACCESS_TOKEN_EXPIRE_MINUTES),
      Signed("bob", 0 + ACCESS_TOKEN_EXPIRE_MINUTES) }

ClientTokens == LoggedInTokens \cup {MalformedToken}

Inputs ==
    { [test_score |-> 85, interview_score |-> 90, years_experience |-> 3],
      [test_score |-> 60, interview_score |-> 70, years_experience |-> 10] }

PredictionIds == 1..MaxPredictions

InitPredict ==
    /\ artifact \in {"missing", "corrupt", "foreign", "ok"}
    /\ phase = "boot"
    /\ model = "None"
    /\ users = SeededUsers
    /\ predictions = <<>>
    /\ now = 0
    /\ ticks = 0
    /\ issued = {}
    /\ reg = [w \in Workers |-> IdleRequest]
    /\ nreg = 0
    /\ resp = NoRequest

NextPredict ==
    \/ Startup
    \/ phase = "serving" /\ \E t \in ClientTokens, i \in Inputs : predict_salary(t, i)
    \/ phase = "serving" /\ \E t \in ClientTokens : get_predictions(t)
    \/ phase = "serving" /\ \E t \in ClientTokens, id \in PredictionIds : get_prediction(t, id)
    \/ Tick(1)

SpecPredict == InitPredict /\ [][NextPredict]_vars

----------------------------------------------------------------------------
(* The protected endpoints under every kind of bearer token *)

GateInputs == { [test_score |-> 85, interview_score |-> 90, years_experience |-> 3] }

NextGate ==
    \/ Startup
    \/ phase = "serving"
         /\ \E t \in RejectedTokens \cup LoggedInTokens, i \in GateInputs :
                predict_salary(t, i)
    \/ phase = "serving"
         /\ \E t \in RejectedTokens \cup LoggedInTokens : get_predictions(t)
    \/ phase = "serving"
         /\ \E t \in RejectedTokens \cup LoggedInTokens, id \in PredictionIds :
                get_prediction(t, id)
    \/ phase = "serving"
         /\ \E t \in RejectedTokens \cup LoggedInTokens : user_info(t)

SpecGate == InitPredict /\ [][NextGate]_vars

----------------------------------------------------------------------------
(* Claims about login and token expiry, checked under SpecAuth *)

CredentialsMatch(r) ==
    LET rows == UsersByUsername(users, r.req.username)
    IN  rows # <<>> /\ rows[1].hashed_password.digest[2] = r.req.password

C6_State ==
    /\ resp.op = "login" =>
          IF CredentialsMatch(resp)
          THEN /\ resp.out.status = 200
               /\ Len(resp.out.body) = 1
               /\ resp.out.body[1].access_token \in {i.tok : i \in issued}
          ELSE resp.out = HTTPException(401, "Incorrect username or password",
                                        BearerChallenge)
    /\ \A i \in issued : UsersByUsername(users, i.tok.sub) # <<>>

C6_Step ==
    /\ issued' # issued =>
          /\ resp'.op = "login"
          /\ CredentialsMatch(resp')
          /\ resp'.out.status = 200
          /\ issued' = issued \cup {[tok |-> resp'.out.body[1].access_token, at |-> now]}
    /\ ( /\ resp.op = "login" /\ ~CredentialsMatch(resp)
         /\ resp'.op = "login" /\ ~CredentialsMatch(resp') )
          => (resp'.out = resp.out /\ issued' = issued)

\* C6: a login with a wrong password for a stored username and a login with a
\* username that is not stored get the identical response (401, the same
\* detail, the same headers, no token); a token is issued only when the user
\* exists and the password is that user's.
C6_LoginFailuresIdentical == []C6_State /\ [][C6_Step]_vars

\* After a successful login, a login for a username that is not stored was
\* refused.
C6_Witness ==
    /\ issued # {}
    /\ resp.op = "login"
    /\ UsersByUsername(users, resp.req.username) = <<>>
    /\ resp.out.status = 401

----------------------------------------------------------------------------
(* Claim about the authentication gate, checked under SpecGate *)

ProtectedOps == {"predict", "list", "get", "me"}

C5_State ==
    (resp.op \in ProtectedOps /\ resp.tok \in RejectedTokens) =>
        /\ resp.out = AuthenticationFailed
        /\ ~resp.ran /\ ~resp.prepared /\ ~resp.invoked

C5_Step ==
    /\ (resp' # resp /\ resp'.op \in ProtectedOps /\ resp'.tok \in RejectedTokens)
          => (users' = users /\ predictions' = predictions)
    /\ (users' # users \/ predictions' # predictions)
          => resp'.tok \notin RejectedTokens

\* C5: on each of POST /predict, GET /predictions, GET /predictions/{id} and
\* GET /me, a request with no token, a malformed token, a token with an
\* invalid signature, an expired token or a token for a username that is not
\* stored gets the same 401 response, the handler body does not run, and
\* neither table changes.
C5_GateRejects == []C5_State /\ [][C5_Step]_vars

\* With a prediction already stored, POST /predict with an expired token was
\* refused.
C5_Witness ==
    /\ predictions # <<>>
    /\ resp.op = "predict"
    /\ resp.tok = Signed("ann", 0)
    /\ resp.out.status = 401

----------------------------------------------------------------------------
(* Claims about predictions, checked under SpecPredict *)

\* The user a verified token names.
Caller(r) == UsersByUsername(users, r.tok.sub)[1]

NotFound == HTTPException(404, "Prediction not found", NoHeaders)

\* C7: GET /predictions/{id} by an authenticated user returns the record only
\* when a prediction with that id exists and is the caller's; for another
\* user's id the response is the 404 given for an id that does not exist, and
\* no response carries a prediction owned by another user.
C7_OwnedOrNotFound ==
    (resp.op = "get" /\ resp.tok \in LoggedInTokens) =>
        LET id == resp.req.id
            own == /\ id \in DOMAIN predictions
                   /\ predictions[id].id = id
                   /\ predictions[id].user_id = Caller(resp).id
        IN  IF own
            THEN resp.out = Reply(200, <<PredictionResponse(predictions[id])>>)
            ELSE resp.out = NotFound

\* A user asked for a prediction that exists and belongs to the other user.
C7_Witness ==
    /\ resp.op = "get"
    /\ resp.tok \in LoggedInTokens
    /\ resp.req.id \in DOMAIN predictions
    /\ predictions[resp.req.id].user_id # Caller(resp).id
    /\ resp.out.status = 404

C8_State ==
    /\ phase = "boot" => ENABLED Startup
    /\ (phase = "serving" /\ artifact \in {"missing", "corrupt"}) => model = "None"
    /\ (resp.op = "predict" /\ resp.tok \in LoggedInTokens /\ model = "None") =>
           /\ resp.out = HTTPException(503, "Model not loaded", NoHeaders)
           /\ ~resp.prepared /\ ~resp.invoked

C8_Step ==
    phase = "serving" =>
        /\ phase' = "serving" /\ model' = model
        /\ model = "None" => predictions' = predictions

\* C8: when the model file is missing or fails to load, startup still
\* completes, with no model; from then on every authenticated POST /predict
\* answers 503 without preparing features or calling the model, and no
\* prediction row is added.
C8_ModelUnavailable == []C8_State /\ [][C8_Step]_vars

\* A corrupt model file, and an authenticated POST /predict answered 503.
C8_Witness ==
    /\ artifact = "corrupt"
    /\ phase = "serving"
    /\ resp.op = "predict"
    /\ resp.tok \in LoggedInTokens
    /\ resp.out.status = 503

C9_Step ==
    /\ Len(predictions') >= Len(predictions)
    /\ \A k \in DOMAIN predictions : predictions'[k] = predictions[k]
    /\ predictions' # predictions =>
          /\ resp'.op = "predict"
          /\ resp'.out.status = 201
          /\ Len(predictions') = Len(predictions) + 1
          /\ LET row == predictions'[Len(predictions')]
                 input == resp'.req.input
                 caller == UsersByUsername(users, resp'.tok.sub)
             IN  /\ caller # <<>>
                 /\ row.user_id = caller[1].id
                 /\ row.test_score = input.test_score
                 /\ row.interview_score = input.interview_score
                 /\ row.years_experience = input.years_experience
                 /\ row.predicted_salary =
                        Regress(<<input.test_score, input.interview_score,
                                  input.years_experience>>)
                 /\ resp'.out.body = <<PredictionResponse(row)>>
    /\ (resp' # resp /\ resp'.op = "predict") =>
          IF resp'.out.status = 201
          THEN Len(predictions') = Len(predictions) + 1
          ELSE predictions' = predictions

\* C9: a successful POST /predict adds exactly one row: the caller's id, the
\* three inputs of the request as given, and the model's output for the vector
\* (test_score, interview_score, years_experience); a POST /predict that fails
\* adds none, and no step changes or removes a stored row.
C9_OneRowPerSuccess == [][C9_Step]_vars

\* Both users have stored predictions, the last one just now.
C9_Witness ==
    /\ Len(predictions) >= 2
    /\ \E j, k \in DOMAIN predictions : predictions[j].user_id # predictions[k].user_id
    /\ resp.op = "predict"
    /\ resp.out.status = 201
    /\ resp.out.body = <<PredictionResponse(predictions[Len(predictions)])>>

\* The response lists all the caller's rows and no others, each once.
ListsCallersRows(r) ==
    LET body == r.out.body
        mine == {k \in DOMAIN predictions : predictions[k].user_id = Caller(r).id}
    IN  /\ Len(body) = Cardinality(mine)
        /\ {body[k].id : k \in DOMAIN body} = mine
        /\ \A k \in DOMAIN body : body[k] = PredictionResponse(predictions[body[k].id])

\* C10 as stated: GET /predictions returns all and only the caller's rows, each
\* created strictly later than the one after it.
C10_StrictlyDescending ==
    (resp.op = "list" /\ resp.tok \in LoggedInTokens) =>
        /\ resp.out.status = 200
        /\ ListsCallersRows(resp)
        /\ \A k \in 1..(Len(resp.out.body) - 1) :
               resp.out.body[k].created_at > resp.out.body[k + 1].created_at

\* C10 as amended: GET /predictions returns all and only the caller's rows, each
\* created later than or at the same instant as the one after it.
C10_Descending ==
    (resp.op = "list" /\ resp.tok \in LoggedInTokens) =>
        /\ resp.out.status = 200
        /\ ListsCallersRows(resp)
        /\ \A k \in 1..(Len(resp.out.body) - 1) :
               resp.out.body[k].created_at >= resp.out.body[k + 1].created_at

\* A list of two rows created at different instants, while the other user
\* has a row too.
C10_Witness ==
    /\ resp.op = "list"
    /\ resp.out.status = 200
    /\ Len(resp.out.body) = 2
    /\ resp.out.body[1].created_at > resp.out.body[2].created_at
    /\ Len(predictions) = 3

====
